---- MODULE Spec2Model ----
(***************************************************************************)
(* Model of the checkers rules engine GameEngine (src/src/game.rs).        *)
(*                                                                         *)
(* State: the 8x8 board of optional pieces, current_turn, move_count, and  *)
(* the value returned by the last call (result).  board[x][y] is indexed   *)
(* exactly as the source indexes it: first index x (column), second y      *)
(* (row).  An Option<T> is a sequence of length 0 (None) or 1 (Some(v)).   *)
(*                                                                         *)
(* The value types of board.rs (Coordinate, GamePiece, Move) are not part  *)
(* of the sources; their operations are modelled from the specification.   *)
(* The specification leaves open whether the jump-target generator of      *)
(* Coordinate bounds its targets to the grid; jump_targets records which   *)
(* of the two generators the engine was built with.                        *)
(***************************************************************************)
EXTENDS Integers, Sequences, FiniteSets, TLC

VARIABLES board, current_turn, move_count, result, jump_targets

vars == <<board, current_turn, move_count, result, jump_targets>>

\* ---------------------------------------------------------------- bounds
\* The caller stops after MaxMoves successful moves.
MaxMoves == 7
\* With all public operations in use, the caller stops after MaxPublicMoves
\* successful moves.
MaxPublicMoves == 2

\* ------------------------------------------------------------- constants
BoardSize == 8

Idx == 0 .. (BoardSize - 1)

\* ------------------------------------------------- value types (board.rs)
None == <<>>
Some(v) == <<v>>

Colors == {"White", "Black"}

\* GamePiece::new(color): an uncrowned piece.
GamePiece_new(color) == [color |-> color, crowned |-> FALSE]

\* GamePiece::crowned(p): a crowned copy of the same colour.
GamePiece_crowned(p) == [color |-> p.color, crowned |-> TRUE]

Coordinate(x, y) == <<x, y>>

Move(from, to) == [from |-> from, to |-> to]

Abs(n) == IF n < 0 THEN -n ELSE n

Range(s) == {s[i] : i \in DOMAIN s}

\* Variant of Contains that compares the origin of the move only.
Contains_FromOnly(s, e) == \E i \in DOMAIN s : s[i].from = e.from

\* Vec::contains
Contains(s, e) == \E i \in DOMAIN s : s[i] = e

OnBoard(c) == c[1] \in Idx /\ c[2] \in Idx

\* The four diagonal targets at distance d, as signed pairs, in generation
\* order.
DiagonalTargets(loc, d) ==
    << <<loc[1] + d, loc[2] - d>>, <<loc[1] + d, loc[2] + d>>,
       <<loc[1] - d, loc[2] - d>>, <<loc[1] - d, loc[2] + d>> >>

\* Coordinate::jump_targets_from: the two-step diagonal targets.  The
\* "in_range" generator validates its targets as in-range; the "unchecked"
\* generator leaves targets above 7 for the engine to bounds-check (the
\* coordinates are unsigned, so a target below 0 is never produced).
jump_targets_from(loc) ==
    IF jump_targets = "in_range"
    THEN SelectSeq(DiagonalTargets(loc, 2), LAMBDA t : OnBoard(t))
    ELSE SelectSeq(DiagonalTargets(loc, 2), LAMBDA t : t[1] >= 0 /\ t[2] >= 0)

\* Coordinate::move_targets_from: the one-step diagonal targets.  The
\* coordinates are unsigned, so a target below 0 is never produced; a target
\* above 7 is produced and left for valid_move to reject.
move_targets_from(loc) ==
    SelectSeq(DiagonalTargets(loc, 1), LAMBDA t : t[1] >= 0 /\ t[2] >= 0)

\* ------------------------------------------------------------ GameEngine
EmptyBoard == [x \in Idx |-> [y \in Idx |-> None]]

WhiteXs == <<1, 3, 5, 7, 0, 2, 4, 6, 1, 3, 5, 7>>
WhiteYs == <<0, 0, 0, 0, 1, 1, 1, 1, 2, 2, 2, 2>>
BlackXs == <<0, 2, 4, 6, 1, 3, 5, 7, 0, 2, 4, 6>>
BlackYs == <<5, 5, 5, 5, 6, 6, 6, 6, 7, 7, 7, 7>>

Min(a, b) == IF a < b THEN a ELSE b

\* xs.iter().zip(ys.iter()).for_each(|(x, y)| b[x][y] = Some(new(color))),
\* from pair i on.
RECURSIVE PlacePieces(_, _, _, _, _)
PlacePieces(b, xs, ys, color, i) ==
    IF i > Min(Len(xs), Len(ys))
    THEN b
    ELSE PlacePieces(
           [b EXCEPT ![xs[i]][ys[i]] = Some(GamePiece_new(color))],
           xs, ys, color, i + 1)

\* Variant of initialize_pieces with the two index lists exchanged.
initialize_pieces_Transposed(b) ==
    PlacePieces(PlacePieces(b, WhiteYs, WhiteXs, "White", 1),
                BlackYs, BlackXs, "Black", 1)

initialize_pieces(b) ==
    PlacePieces(PlacePieces(b, WhiteXs, WhiteYs, "White", 1),
                BlackXs, BlackYs, "Black", 1)

midpiece_coordinate(fx, fy, tx, ty) ==
    IF Abs(fx - tx) = 2 /\ Abs(fy - ty) = 2
    THEN Some(Coordinate((fx + tx) \div 2, (fy + ty) \div 2))
    ELSE None

\* Variant of should_crown with the two promotion rows exchanged.
should_crown_Swapped(piece, to) ==
    IF piece.color = "White" THEN to[2] = 0 ELSE to[2] = 7

should_crown(piece, to) ==
    IF piece.color = "White" THEN to[2] = 7 ELSE to[2] = 0

\* Variant of crown_piece that leaves the piece as it is.
crown_piece_NoOp(b, coord) == b

crown_piece(b, coord) ==
    IF b[coord[1]][coord[2]] # None
    THEN [b EXCEPT ![coord[1]][coord[2]] =
              Some(GamePiece_crowned(b[coord[1]][coord[2]][1]))]
    ELSE b

OtherColor(c) == IF c = "White" THEN "Black" ELSE "White"

\* Variant of valid_move that tests is_some instead of is_none.
valid_move_Occupied(b, piece, from, to) ==
    IF to[1] < BoardSize /\ to[2] < BoardSize
    THEN b[to[1]][to[2]] # None
    ELSE FALSE

\* Variant of valid_move that also requires a forward step (White toward
\* higher rows, Black toward lower rows).
valid_move_ForwardOnly(b, piece, from, to) ==
    IF to[1] < BoardSize /\ to[2] < BoardSize
    THEN /\ b[to[1]][to[2]] = None
         /\ IF piece.color = "White" THEN to[2] > from[2] ELSE to[2] < from[2]
    ELSE FALSE

valid_move(b, piece, from, to) ==
    IF to[1] < BoardSize /\ to[2] < BoardSize
    THEN b[to[1]][to[2]] = None
    ELSE FALSE

\* Variant of valid_jump that tests == instead of != on the colours.
valid_jump_OwnColor(b, piece, from, to) ==
    IF Abs(from[1] - to[1]) = 2 /\ Abs(from[2] - to[2]) = 2
    THEN LET m == midpiece_coordinate(from[1], from[2], to[1], to[2])
         IN  IF m # None
             THEN IF b[m[1][1]][m[1][2]] # None
                  THEN b[m[1][1]][m[1][2]][1].color = piece.color
                  ELSE FALSE
             ELSE FALSE
    ELSE FALSE

valid_jump(b, piece, from, to) ==
    IF Abs(from[1] - to[1]) = 2 /\ Abs(from[2] - to[2]) = 2
    THEN LET m == midpiece_coordinate(from[1], from[2], to[1], to[2])
         IN  IF m # None
             THEN IF b[m[1][1]][m[1][2]] # None
                  THEN b[m[1][1]][m[1][2]][1].color # piece.color
                  ELSE FALSE
             ELSE FALSE
    ELSE FALSE

ToMoves(loc, targets) == [i \in DOMAIN targets |-> Move(loc, targets[i])]

\* Variant of valid_moves_from that appends the jumps to the simple moves.
valid_moves_from_MovesFirst(b, loc) ==
    IF b[loc[1]][loc[2]] # None
    THEN LET p == b[loc[1]][loc[2]][1]
             jumps == ToMoves(loc, SelectSeq(jump_targets_from(loc),
                                     LAMBDA t : valid_jump(b, p, loc, t)))
             moves == ToMoves(loc, SelectSeq(move_targets_from(loc),
                                     LAMBDA t : valid_move(b, p, loc, t)))
         IN  moves \o jumps
    ELSE <<>>

valid_moves_from(b, loc) ==
    IF b[loc[1]][loc[2]] # None
    THEN LET p == b[loc[1]][loc[2]][1]
             jumps == ToMoves(loc, SelectSeq(jump_targets_from(loc),
                                     LAMBDA t : valid_jump(b, p, loc, t)))
             moves == ToMoves(loc, SelectSeq(move_targets_from(loc),
                                     LAMBDA t : valid_move(b, p, loc, t)))
         IN  jumps \o moves
    ELSE <<>>

\* Variant of CellMoves without the test piece.color == self.current_turn.
CellMoves_AnyColor(b, turn, col, row) ==
    IF b[col][row] # None
    THEN valid_moves_from(b, Coordinate(col, row))
    ELSE <<>>

\* The body of the two nested loops of legal_moves for one cell.
CellMoves(b, turn, col, row) ==
    IF b[col][row] # None
    THEN IF b[col][row][1].color = turn
         THEN valid_moves_from(b, Coordinate(col, row))
         ELSE <<>>
    ELSE <<>>

\* legal_moves: scan[i] is the content of `moves` contributed from scan
\* position i on, where position i is the cell col = i / 8, row = i % 8 of
\* the two nested loops.
legal_moves(b, turn) ==
    LET scan[i \in 0 .. BoardSize * BoardSize] ==
            IF i = BoardSize * BoardSize
            THEN <<>>
            ELSE CellMoves(b, turn, i \div BoardSize, i % BoardSize)
                   \o scan[i + 1]
    IN  scan[0]

\* The index expression self.board[mx][my] of valid_jump (line 151) is out
\* of range for the jump from `from` to `to`: the call panics.
valid_jump_panics(from, to) ==
    /\ Abs(from[1] - to[1]) = 2 /\ Abs(from[2] - to[2]) = 2
    /\ ~OnBoard(midpiece_coordinate(from[1], from[2], to[1], to[2])[1])

\* legal_moves panics: the scan reaches a piece of the side to move one of
\* whose jump targets makes valid_jump index outside the board.
legal_moves_panics(b, turn) ==
    \E col \in Idx, row \in Idx :
        /\ b[col][row] # None
        /\ b[col][row][1].color = turn
        /\ \E i \in DOMAIN jump_targets_from(Coordinate(col, row)) :
               valid_jump_panics(Coordinate(col, row),
                                 jump_targets_from(Coordinate(col, row))[i])

\* Variant of MovedBoard that writes the moved piece to board[tx][fy].
MovedBoard_MixedIndex(b, mv) ==
    LET piece == b[mv.from[1]][mv.from[2]][1]
        mid == midpiece_coordinate(mv.from[1], mv.from[2], mv.to[1], mv.to[2])
        b1 == IF mid # None THEN [b EXCEPT ![mid[1][1]][mid[1][2]] = None]
              ELSE b
        b2 == [b1 EXCEPT ![mv.to[1]][mv.from[2]] = Some(piece)]
        b3 == [b2 EXCEPT ![mv.from[1]][mv.from[2]] = None]
    IN  IF should_crown(piece, mv.to) THEN crown_piece(b3, mv.to) ELSE b3

\* Variant of MovedBoard that does not remove the jumped piece.
MovedBoard_KeepMid(b, mv) ==
    LET piece == b[mv.from[1]][mv.from[2]][1]
        b2 == [b EXCEPT ![mv.to[1]][mv.to[2]] = Some(piece)]
        b3 == [b2 EXCEPT ![mv.from[1]][mv.from[2]] = None]
    IN  IF should_crown(piece, mv.to) THEN crown_piece(b3, mv.to) ELSE b3

\* Variant of MovedBoard that puts a freshly made piece of the mover's
\* colour on the destination.
MovedBoard_FreshPiece(b, mv) ==
    LET piece == b[mv.from[1]][mv.from[2]][1]
        mid == midpiece_coordinate(mv.from[1], mv.from[2], mv.to[1], mv.to[2])
        b1 == IF mid # None THEN [b EXCEPT ![mid[1][1]][mid[1][2]] = None]
              ELSE b
        b2 == [b1 EXCEPT ![mv.to[1]][mv.to[2]] = Some(GamePiece_new(piece.color))]
        b3 == [b2 EXCEPT ![mv.from[1]][mv.from[2]] = None]
    IN  IF should_crown(piece, mv.to) THEN crown_piece(b3, mv.to) ELSE b3

\* The board after lines 44-59 of move_piece, for a move that passed the
\* legality test.
MovedBoard(b, mv) ==
    LET fx == mv.from[1]
        fy == mv.from[2]
        tx == mv.to[1]
        ty == mv.to[2]
        piece == b[fx][fy][1]
        mid == midpiece_coordinate(fx, fy, tx, ty)
        b1 == IF mid # None THEN [b EXCEPT ![mid[1][1]][mid[1][2]] = None]
              ELSE b
        b2 == [b1 EXCEPT ![tx][ty] = Some(piece)]
        b3 == [b2 EXCEPT ![fx][fy] = None]
    IN  IF should_crown(piece, mv.to) THEN crown_piece(b3, mv.to) ELSE b3

Err == [kind |-> "Err"]

\* The call did not return: an index was out of range.
Panic == [kind |-> "Panic"]
Ok(mv, crowned) == [kind |-> "Ok", mv |-> mv, crowned |-> crowned]

\* Variant of advance_turn that keeps the turn.
advance_turn_NoFlip ==
    /\ current_turn' = current_turn
    /\ move_count' = move_count + 1

\* advance_turn
advance_turn ==
    /\ current_turn' = OtherColor(current_turn)
    /\ move_count' = move_count + 1

\* The midpoint of a legal jump whose destination is off the board.
MidOfJump(mv) ==
    midpiece_coordinate(mv.from[1], mv.from[2], mv.to[1], mv.to[2])[1]

\* move_piece; legal is the value of `let legal_moves = self.legal_moves()`
\* (line 40), which depends on the state only.
move_piece(mv, legal) ==
    /\ IF ~Contains(legal, mv)
       THEN /\ result' = Err
            /\ UNCHANGED <<board, current_turn, move_count>>
       ELSE IF ~OnBoard(mv.to)
       THEN \* line 49 has removed the jumped piece when line 52 panics
            /\ board' = [board EXCEPT ![MidOfJump(mv)[1]][MidOfJump(mv)[2]] = None]
            /\ result' = Panic
            /\ UNCHANGED <<current_turn, move_count>>
       ELSE /\ board' = MovedBoard(board, mv)
            /\ advance_turn
            /\ result' = Ok(mv, should_crown(board[mv.from[1]][mv.from[2]][1],
                                             mv.to))
    /\ UNCHANGED jump_targets

\* move_piece when the call of legal_moves at line 40 panics.
move_piece_panic ==
    /\ result' = Panic
    /\ UNCHANGED <<board, current_turn, move_count, jump_targets>>

\* ------------------------------------------------------ the caller's moves
\* Offsets from the origin to the destination of a submitted move: the
\* origin itself, the diagonal one- and two-step targets, and two
\* non-diagonal steps.
Offsets ==
    {d \in (-2 .. 2) \X (-2 .. 2) : Abs(d[1]) = Abs(d[2])}
        \cup {<<0, 1>>, <<1, 0>>}

Near(c) == {<<c[1] + d[1], c[2] + d[2]>> : d \in Offsets}

\* The caller submits moves whose origin and destination lie in the four
\* leftmost columns (legal_moves itself always scans the whole board).  The
\* properties below also hold with CallerCols == 0 .. 4.
CallerCols == 0 .. 3

CallerCells == CallerCols \X Idx

Submitted ==
    UNION {{Move(f, t) : t \in Near(f) \cap CallerCells} : f \in CallerCells}

\* ------------------------------------------------------------------ spec
\* GameEngine::new
Init ==
    /\ board = initialize_pieces(EmptyBoard)
    /\ current_turn = "Black"
    /\ move_count = 0
    /\ result = [kind |-> "new"]
    /\ jump_targets = "in_range"

MovePiece ==
    /\ move_count < MaxMoves
    /\ IF legal_moves_panics(board, current_turn)
       THEN move_piece_panic
       ELSE \E legal \in {legal_moves(board, current_turn)} :
               \E mv \in Submitted : move_piece(mv, legal)

Next == MovePiece

Spec == Init /\ [][Next]_vars

TypeOK ==
    /\ current_turn \in Colors
    /\ move_count \in 0 .. MaxMoves

\* ------------------------------------------- all public operations in use
\* get_piece (lines 162-165): returns Ok(None) whatever the coordinate.  The
\* record keeps the argument of the call next to the returned value.
get_piece(coord) ==
    /\ result' = [kind |-> "Piece", coord |-> coord, ok |-> TRUE,
                  value |-> None]
    /\ UNCHANGED <<board, current_turn, move_count, jump_targets>>

\* The coordinates the caller passes to get_piece: occupied and empty cells
\* of the grid and coordinates outside it.
Looked ==
    {Coordinate(1, 0), Coordinate(0, 0), Coordinate(0, 5), Coordinate(1, 4),
     Coordinate(7, 7), Coordinate(8, 0), Coordinate(0, 8)}

GetPiece == \E coord \in Looked : get_piece(coord)

\* current_turn() (lines 158-160)
CurrentTurn ==
    /\ result' = [kind |-> "Turn", value |-> current_turn]
    /\ UNCHANGED <<board, current_turn, move_count, jump_targets>>

\* The public initialize_pieces called on a constructed engine.
InitializePieces ==
    /\ board' = initialize_pieces(board)
    /\ result' = [kind |-> "Initialized"]
    /\ UNCHANGED <<current_turn, move_count, jump_targets>>

PublicMovePiece == move_count < MaxPublicMoves /\ MovePiece

PublicNext == PublicMovePiece \/ InitializePieces \/ CurrentTurn \/ GetPiece

SpecPublic == Init /\ [][PublicNext]_vars

\* ------------------------------------ either jump-target generator in use
\* GameEngine::new over either of the two jump-target generators.
InitAnyGenerator ==
    /\ board = initialize_pieces(EmptyBoard)
    /\ current_turn = "Black"
    /\ move_count = 0
    /\ result = [kind |-> "new"]
    /\ jump_targets \in {"in_range", "unchecked"}

SpecAnyGenerator == InitAnyGenerator /\ [][Next]_vars

\* ---------------------------------------------------------------- claims
Cells == Idx \X Idx

At(b, c) == b[c[1]][c[2]]

Count(b, color) ==
    Cardinality({c \in Cells : At(b, c) # None /\ At(b, c)[1].color = color})

IsJump(mv) ==
    Abs(mv.from[1] - mv.to[1]) = 2 /\ Abs(mv.from[2] - mv.to[2]) = 2

MidOf(mv) ==
    <<(mv.from[1] + mv.to[1]) \div 2, (mv.from[2] + mv.to[2]) \div 2>>

LegalNow == Range(legal_moves(board, current_turn))

\* C1: a call with a move outside the freshly computed legal_moves() returns
\* the error and leaves board, current_turn and move_count as they were:
\* a call that returned Ok was made with a legal move, and a call that
\* returned Err changed nothing.
C1_InvalidMoveRejected ==
    [][ /\ result'.kind = "Ok" => result'.mv \in LegalNow
        /\ result'.kind = "Err" =>
              UNCHANGED <<board, current_turn, move_count>> ]_vars

\* C1 witness: a call was rejected after the game had started.
C1_Witness == result.kind = "Err" /\ move_count >= 1

\* C2: every successful move_piece flips current_turn and adds exactly 1 to
\* move_count; the piece moved belongs to the side that was to move, and
\* that side is not to move next.
C2_TurnAdvances ==
    [][ result'.kind = "Ok" =>
          /\ current_turn' = OtherColor(current_turn)
          /\ current_turn' # current_turn
          /\ move_count' = move_count + 1
          /\ At(board, result'.mv.from)[1].color = current_turn
          /\ At(board', result'.mv.to)[1].color # current_turn' ]_vars

\* C2 witness: a capture was applied and the turn passed to the other side.
C2_Witness ==
    /\ result.kind = "Ok"
    /\ IsJump(result.mv)
    /\ At(board, result.mv.to)[1].color = OtherColor(current_turn)

\* C3: every move of legal_moves() starts on a cell holding a piece of the
\* side to move.
C3_LegalMovesOwnPieces ==
    \A mv \in LegalNow :
        /\ OnBoard(mv.from)
        /\ At(board, mv.from) # None
        /\ At(board, mv.from)[1].color = current_turn

\* C3 witness: White is to move after a Black move and has legal moves.
C3_Witness ==
    /\ result.kind = "Ok"
    /\ current_turn = "White"
    /\ LegalNow # {}

\* C4: a successful move empties the origin, puts the moved piece (same
\* colour, crowned flag kept or set) on the destination, empties the
\* midpoint when the move is a jump, and changes no other cell.
C4_MoveFrame ==
    [][ result'.kind = "Ok" =>
          LET mv == result'.mv
              piece == At(board, mv.from)[1]
          IN  /\ At(board', mv.from) = None
              /\ At(board', mv.to) # None
              /\ At(board', mv.to)[1].color = piece.color
              /\ At(board', mv.to)[1] \in {piece, GamePiece_crowned(piece)}
              /\ IsJump(mv) => At(board', MidOf(mv)) = None
              /\ \A c \in Cells :
                    (c # mv.from /\ c # mv.to /\ ~(IsJump(mv) /\ c = MidOf(mv)))
                        => At(board', c) = At(board, c) ]_vars

\* C4 witness: a jump was applied.
C4_Witness ==
    /\ result.kind = "Ok"
    /\ IsJump(result.mv)
    /\ At(board, MidOf(result.mv)) = None
    /\ At(board, result.mv.to) # None

\* C5: a successful move never lands on an occupied cell.
C5_DestinationEmpty ==
    [][ result'.kind = "Ok" => At(board, result'.mv.to) = None ]_vars

\* C6: a successful move keeps the number of the mover's pieces, and keeps
\* the number of the opponent's pieces for a simple move and lowers it by
\* exactly 1 for a jump.
C6_PiecesLeaveByCaptureOnly ==
    [][ result'.kind = "Ok" =>
          LET mover == current_turn
              opp == OtherColor(current_turn)
          IN  /\ Count(board', mover) = Count(board, mover)
              /\ Count(board', opp) =
                    Count(board, opp) - (IF IsJump(result'.mv) THEN 1 ELSE 0)
      ]_vars

\* C7: a successful move that puts a White piece on row 7 or a Black piece
\* on row 0 leaves a crowned piece of that colour on the destination and
\* returns crowned = true; any other successful move returns crowned = false
\* and leaves the moved piece as it was.
C7_Promotion ==
    [][ result'.kind = "Ok" =>
          LET mv == result'.mv
              piece == At(board, mv.from)[1]
              promo == \/ piece.color = "White" /\ mv.to[2] = 7
                       \/ piece.color = "Black" /\ mv.to[2] = 0
          IN  IF promo
              THEN /\ result'.crowned
                   /\ At(board', mv.to) =
                         Some([color |-> piece.color, crowned |-> TRUE])
              ELSE /\ ~result'.crowned
                   /\ At(board', mv.to) = Some(piece) ]_vars

\* C7 witness: a move was applied that crowned the piece.
C7_Witness ==
    /\ result.kind = "Ok"
    /\ result.crowned
    /\ At(board, result.mv.to)[1].crowned

\* C8: a crowned piece stays crowned while it is on the board: in one call
\* a crowned piece either stays in its cell unchanged, or is the piece moved
\* and arrives crowned with its colour, or leaves the board (it was jumped
\* over, or the arriving piece replaced it).
C8_CrownedStaysCrowned ==
    [][ board' # board => \A c \in Cells :
          (At(board, c) # None /\ At(board, c)[1].crowned) =>
             \/ At(board', c) = At(board, c)
             \/ /\ result'.kind = "Ok"
                /\ \/ /\ c = result'.mv.from
                      /\ At(board', result'.mv.to) = At(board, c)
                   \/ IsJump(result'.mv) /\ c = MidOf(result'.mv)
                                         /\ At(board', c) = None
                   \/ c = result'.mv.to ]_vars

\* C8 witness: a piece crowned earlier was moved off its promotion row and
\* is still crowned.
C8_Witness ==
    /\ result.kind = "Ok"
    /\ ~result.crowned
    /\ At(board, result.mv.to)[1].crowned

RowsOf(b, color) ==
    {c[2] : c \in {d \in Cells : At(b, d) # None /\ At(b, d)[1].color = color}}

\* C9: right after new() there are exactly 12 White pieces, all in rows
\* 0-2, and 12 Black pieces, all in rows 5-7, all uncrowned; the turn is
\* Black's and move_count is 0.
C9_InitialPosition ==
    result.kind = "new" =>
        /\ Count(board, "White") = 12
        /\ Count(board, "Black") = 12
        /\ RowsOf(board, "White") \subseteq 0 .. 2
        /\ RowsOf(board, "Black") \subseteq 5 .. 7
        /\ \A c \in Cells : At(board, c) # None => ~At(board, c)[1].crowned
        /\ Cardinality({c \in Cells : At(board, c) = None}) = 40
        /\ current_turn = "Black"
        /\ move_count = 0

\* C9 witness: the state right after new().
C9_Witness ==
    /\ result.kind = "new"
    /\ At(board, <<1, 0>>) = Some(GamePiece_new("White"))
    /\ At(board, <<0, 5>>) = Some(GamePiece_new("Black"))

ScenarioMove == Move(Coordinate(1, 2), Coordinate(0, 3))
FirstBlackMove == Move(Coordinate(2, 5), Coordinate(1, 4))

\* C10 as stated: from the initial position the move (1,2) -> (0,3) is
\* legal, and applying it succeeds, puts a Black piece on board[0][3],
\* empties board[1][2], passes the turn to White and sets move_count to 1.
C10_ScenarioAsStated ==
    [][ (result.kind = "new" /\ move_piece(ScenarioMove, legal_moves(board, current_turn))) =>
          /\ ScenarioMove \in LegalNow
          /\ result'.kind = "Ok"
          /\ At(board', <<0, 3>>) = Some(GamePiece_new("Black"))
          /\ At(board', <<1, 2>>) = None
          /\ current_turn' = "White"
          /\ move_count' = 1 ]_vars

\* C10 amended: from the initial position the move (1,2) -> (0,3) is not
\* legal (board[1][2] holds a White piece and Black is to move) and is
\* rejected without effect; the Black move (2,5) -> (1,4) is legal, and
\* applying it puts a Black piece on board[1][4], empties board[2][5],
\* passes the turn to White and sets move_count to 1.
C10_Scenario ==
    [][ result.kind = "new" =>
          /\ ScenarioMove \notin LegalNow
          /\ At(board, <<1, 2>>) = Some(GamePiece_new("White"))
          /\ move_piece(ScenarioMove, legal_moves(board, current_turn)) =>
                (result'.kind = "Err" /\ board' = board)
          /\ FirstBlackMove \in LegalNow
          /\ (result'.kind = "Ok" /\ result'.mv = FirstBlackMove) =>
                /\ At(board', <<1, 4>>) = Some(GamePiece_new("Black"))
                /\ At(board', <<2, 5>>) = None
                /\ current_turn' = "White"
                /\ move_count' = 1 ]_vars

\* C10 witness: the Black move (2,5) -> (1,4) was applied first.
C10_Witness ==
    /\ result.kind = "Ok"
    /\ result.mv = FirstBlackMove
    /\ move_count = 1

\* C11: for an in-bounds coordinate get_piece returns the content of that
\* board cell.
C11_GetPieceReturnsCell ==
    (result.kind = "Piece" /\ OnBoard(result.coord)) =>
        (result.ok /\ result.value = At(board, result.coord))

\* C12: get_piece with a coordinate outside the grid returns the
\* OutOfBounds error and leaves the engine state unchanged.
C12_GetPieceOutOfBounds ==
    [][ (result'.kind = "Piece" /\ ~OnBoard(result'.coord)) =>
          /\ ~result'.ok
          /\ UNCHANGED <<board, current_turn, move_count>> ]_vars

\* C13: on a constructed engine only a successful move_piece changes a board
\* cell (a call of initialize_pieces leaves the board unchanged), and no side
\* ever has more than 12 pieces.
C13_OnlyMovesMutateBoard ==
    [][ /\ board' # board => result'.kind = "Ok"
        /\ Count(board', "White") <= 12
        /\ Count(board', "Black") <= 12 ]_vars

\* C14: legal_moves() and move_piece never index the board outside 0..7 and
\* every move of legal_moves() has its origin and destination inside the
\* grid, whichever jump-target generator is in use.
C14_Total ==
    /\ result.kind # "Panic"
    /\ ~legal_moves_panics(board, current_turn)
    /\ \A mv \in LegalNow : OnBoard(mv.from) /\ OnBoard(mv.to)

Diagonals(d) == {<<d, d>>, <<d, -d>>, <<-d, d>>, <<-d, -d>>}

\* The cells holding a piece of the side to move.
OwnCells ==
    {c \in Cells : At(board, c) # None /\ At(board, c)[1].color = current_turn}

\* The constructed board of the capture scenario: Black on (3,4), White on
\* (4,5), every other cell empty.
ScenarioBoard ==
    [EmptyBoard EXCEPT ![3][4] = Some(GamePiece_new("Black")),
                       ![4][5] = Some(GamePiece_new("White"))]

ScenarioJump == Move(Coordinate(3, 4), Coordinate(5, 6))

\* On the scenario board with Black to move the jump (3,4) -> (5,6) is
\* legal, and applying it empties (4,5) and (3,4) and puts the Black piece
\* on (5,6).
ScenarioJumpApplies ==
    /\ Contains(legal_moves(ScenarioBoard, "Black"), ScenarioJump)
    /\ MovedBoard(ScenarioBoard, ScenarioJump) =
          [EmptyBoard EXCEPT ![5][6] = Some(GamePiece_new("Black"))]

\* C15: for a piece of the side to move, a two-step diagonal move to a cell
\* of the grid is in legal_moves() exactly when the midpoint cell holds a
\* piece of the other colour; the capture scenario is an instance.
C15_JumpLegalIffEnemyMid ==
    /\ ScenarioJumpApplies
    /\ \A legal \in {LegalNow} :
      \A f \in OwnCells : \A d \in Diagonals(2) :
        LET t == <<f[1] + d[1], f[2] + d[2]>>
            m == <<f[1] + d[1] \div 2, f[2] + d[2] \div 2>>
        IN  OnBoard(t) =>
              (Move(f, t) \in legal <=>
                 (At(board, m) # None
                    /\ At(board, m)[1].color # current_turn))

\* C15 witness: after some moves the side to move has a legal jump over an
\* opposing piece onto an empty cell.
C15_Witness ==
    /\ move_count >= 1
    /\ \E mv \in LegalNow :
          /\ IsJump(mv)
          /\ At(board, mv.to) = None
          /\ At(board, MidOf(mv))[1].color = OtherColor(current_turn)

\* C16: for a piece of the side to move, a one-step diagonal move is in
\* legal_moves() exactly when its destination is inside the grid and empty,
\* whatever the piece's colour, crowned flag and direction of travel.
C16_StepLegalIffEmpty ==
    \A legal \in {LegalNow} :
      \A f \in OwnCells : \A d \in Diagonals(1) :
        LET t == <<f[1] + d[1], f[2] + d[2]>>
        IN  Move(f, t) \in legal <=> (OnBoard(t) /\ At(board, t) = None)

\* C16 witness: an uncrowned piece has just moved one step backward.
C16_Witness ==
    /\ result.kind = "Ok"
    /\ ~IsJump(result.mv)
    /\ ~At(board, result.mv.to)[1].crowned
    /\ IF At(board, result.mv.to)[1].color = "White"
       THEN result.mv.to[2] < result.mv.from[2]
       ELSE result.mv.to[2] > result.mv.from[2]

ScanIndex(c) == c[1] * BoardSize + c[2]

\* C17: legal_moves() lists its moves in scan order of their origins (first
\* index outer, second index inner), for one origin all jumps before all
\* simple moves; it is empty when the side to move has no piece.
C17_ScanOrder ==
    \A lm \in {legal_moves(board, current_turn)} :
      /\ \A i \in DOMAIN lm : \A j \in DOMAIN lm :
            i < j =>
              /\ ScanIndex(lm[i].from) <= ScanIndex(lm[j].from)
              /\ (lm[i].from = lm[j].from /\ IsJump(lm[j])) => IsJump(lm[i])
      /\ OwnCells = {} => lm = <<>>
      /\ \A i \in DOMAIN lm : lm[i].from \in OwnCells

\* C17 witness: the list holds moves of several pieces, and for one piece
\* both a jump and a simple move.
C17_Witness ==
    \E a \in LegalNow : \E b \in LegalNow : \E c \in LegalNow :
        /\ a.from = b.from /\ IsJump(a) /\ ~IsJump(b)
        /\ c.from # a.from

\* C18: every piece stands on a cell (x, y) with x + y odd.
C18_PlayableSquares ==
    \A c \in Cells : At(board, c) # None => (c[1] + c[2]) % 2 = 1

\* C18 witness: after a jump and at least three moves, pieces stand on
\* rows 3 and 4.
C18_Witness ==
    /\ move_count >= 3
    /\ result.kind = "Ok"
    /\ IsJump(result.mv)
    /\ \E c \in Cells : c[2] \in {3, 4} /\ At(board, c) # None

\* C19: current_turn is Black exactly when move_count is even (and White
\* exactly when it is odd), and move_count never decreases.
C19_TurnParity ==
    /\ [](/\ current_turn = "Black" <=> move_count % 2 = 0
          /\ current_turn = "White" <=> move_count % 2 = 1)
    /\ [][move_count' >= move_count]_vars

\* C19 witness: three moves were applied and White is to move.
C19_Witness ==
    /\ move_count = 3
    /\ current_turn = "White"
    /\ result.kind = "Ok"

OnPromotionRow(c, piece) ==
    \/ piece.color = "White" /\ c[2] = 7
    \/ piece.color = "Black" /\ c[2] = 0

\* C20: every White piece on row 7 and every Black piece on row 0 is
\* crowned.
C20_PromotionRowCrowned ==
    \A c \in Cells :
        (At(board, c) # None /\ OnPromotionRow(c, At(board, c)[1]))
            => At(board, c)[1].crowned

\* C20 witness: a piece stands on its promotion row while another piece has
\* just moved.
C20_Witness ==
    /\ result.kind = "Ok"
    /\ \E c \in Cells :
          /\ c # result.mv.to
          /\ At(board, c) # None
          /\ OnPromotionRow(c, At(board, c)[1])
====
